---- MODULE Spec2Model ----
(***************************************************************************)
(* Ballot-result views of tabbycat (tabbycat/results/views.py): the        *)
(* handlers toggle_postponed, edit_ballotset, new_ballotset,               *)
(* public_new_ballotset and post_ballot_checkin over the BallotSubmission  *)
(* and Debate tables and the action log.                                   *)
(*                                                                         *)
(* Spec     runs every handler as one step (one request at a time).        *)
(* SpecConc runs two requests whose database accesses interleave: nothing  *)
(*          in views.py takes a lock or opens a transaction.               *)
(*                                                                         *)
(* BallotSetForm and the models are not part of views.py; what the form    *)
(* does on save is taken from the specification of the confirmation state  *)
(* machine (section 4.1) and is marked as such below.                      *)
(***************************************************************************)
EXTENDS Integers, Sequences, FiniteSets, Bags, TLC

VARIABLES db, req

vars == <<db, req>>

-----------------------------------------------------------------------------
(* Bounds *)

\* rows of the BallotSubmission table before creation is no longer explored
MaxSubs == 2

\* action-log rows before logging handlers are no longer explored
MaxLog == 4

-----------------------------------------------------------------------------
(* The fixed world the handlers run in *)

None == "None"

Debates == {"d1", "d2"}
Rounds == {"R1", "R2"}
Venues == {"v1", "v2"}
Users == {"asst", "admin"}
Adjudicators == {"adj1", "adj2", "adj3"}

\* request.user.is_superuser
is_superuser(u) == u = "admin"

\* t.current_round
current_round == "R1"

\* debate.round: both debates are of the current round; R2 has no debate yet
DebateRound(d) == "R1"

\* debate.venue
DebateVenue(d) == IF d = "d1" THEN "v1" ELSE "v2"

\* venue.name, as a sequence of characters
VenueName(v) == IF v = "v1" THEN <<"R", "1">> ELSE <<"h", "2">>

\* debate.adjudicators.has_chair
has_chair(d) == d = "d1"

\* the DebateAdjudicator rows: adj3 sits on no panel
AdjDebate(a) == IF a = "adj1" THEN "d1" ELSE IF a = "adj2" THEN "d2" ELSE None

\* Debate.STATUS_*
STATUS_NONE == "N"
STATUS_POSTPONED == "P"
STATUS_DRAFT == "D"
STATUS_CONFIRMED == "C"

\* Round.STATUS_*
STATUS_RELEASED == "R"
STATUS_DRAFT_DRAW == "D"

\* the fields of t.current_round as a request finds them
RoundStates == [draw_status : {STATUS_RELEASED, STATUS_DRAFT_DRAW},
                motions_released : BOOLEAN]

\* ActionLogEntry.ACTION_TYPE_*
ACTION_TYPE_BALLOT_DISCARD == "discard"
ACTION_TYPE_BALLOT_CONFIRM == "confirm"
ACTION_TYPE_BALLOT_EDIT == "edit"
ACTION_TYPE_BALLOT_SUBMIT == "submit"
ACTION_TYPE_BALLOT_CREATE == "create"
ACTION_TYPE_BALLOT_CHECKIN == "checkin"

\* what a POST of the ballot form carries: the two checkboxes, and whether
\* the scoring content passes the form's validation
PostData == [confirmed : BOOLEAN, discarded : BOOLEAN, valid : {TRUE}] \cup
            [confirmed : {FALSE}, discarded : {FALSE}, valid : {FALSE}]

\* the venue names typed into the checkin form
CheckinNames == {<<"R", "1">>, <<"r", "1">>, <<"H", "2">>, <<"x", "1">>}

-----------------------------------------------------------------------------
(* Case-insensitive comparison of names (the name__iexact lookup) *)

Lower(c) == IF c = "R" THEN "r" ELSE IF c = "H" THEN "h" ELSE IF c = "X" THEN "x" ELSE c

LowerName(s) == [i \in 1..Len(s) |-> Lower(s[i])]

\* the lookup with name__exact in place of name__iexact
exact(a, b) == a = b

\* name__iexact
iexact(a, b) == LowerName(a) = LowerName(b)

-----------------------------------------------------------------------------
(* The database *)

\* a BallotSubmission row
NewBallotSubmission(ver, submitter) ==
    [version |-> ver, submitter |-> submitter, confirmed |-> FALSE,
     discarded |-> FALSE, confirmer |-> None, confirm_timestamp |-> None]

\* ActionLogEntry.objects.log(...): the type and what the entry is about, a
\* ballot submission of a debate or (id 0) the debate itself
Log(d, type, debate, id) ==
    [d EXCEPT !.log = @ (+) SetToBag({[type |-> type, debate |-> debate,
                                       ballotsub |-> id]})]

\* Model.save() of a Debate object held in memory: every field is written
SaveDebate(d, debate, mem) ==
    [d EXCEPT !.result_status[debate] = mem.result_status,
              !.ballot_in[debate] = mem.ballot_in]

\* Debate.objects.get(pk=...): the in-memory copy of the row
LoadDebate(d, debate) ==
    [result_status |-> d.result_status[debate], ballot_in |-> d.ballot_in[debate]]

\* ballotsub.save() of a BallotSubmission held in memory: the row is written
SaveBallotsub(d, debate, id, mem) ==
    [d EXCEPT !.subs[debate][id] = mem]

\* debate.confirmed_ballot and friends
Confirmed(d, debate) ==
    {i \in 1..Len(d.subs[debate]) :
        d.subs[debate][i].confirmed /\ ~d.subs[debate][i].discarded}

Live(d, debate) == {i \in 1..Len(d.subs[debate]) : ~d.subs[debate][i].discarded}

LogCount(d, type, debate) ==
    LET rows == {e \in BagToSet(d.log) : e.type = type /\ e.debate = debate}
        RECURSIVE Sum(_)
        Sum(S) == IF S = {} THEN 0
                  ELSE LET e == CHOOSE x \in S : TRUE
                       IN CopiesIn(e, d.log) + Sum(S \ {e})
    IN Sum(rows)

LogRows(d, debate) ==
    LET rows == {e \in BagToSet(d.log) : e.debate = debate}
        RECURSIVE Sum(_)
        Sum(S) == IF S = {} THEN 0
                  ELSE LET e == CHOOSE x \in S : TRUE
                       IN CopiesIn(e, d.log) + Sum(S \ {e})
    IN Sum(rows)

-----------------------------------------------------------------------------
(* BallotSetForm, after section 4.1 of the specification *)

\* the status recomputed without regard to the tombstones
RecomputeStatusAnyRow(rows) ==
    IF \E i \in 1..Len(rows) : rows[i].confirmed /\ ~rows[i].discarded
    THEN STATUS_CONFIRMED
    ELSE IF rows # <<>> THEN STATUS_DRAFT ELSE STATUS_NONE

\* debate status recomputed from the debate's submissions (discardSubmission)
RecomputeStatus(rows) ==
    IF \E i \in 1..Len(rows) : rows[i].confirmed /\ ~rows[i].discarded
    THEN STATUS_CONFIRMED
    ELSE IF \E i \in 1..Len(rows) : ~rows[i].discarded
         THEN STATUS_DRAFT
         ELSE STATUS_NONE

\* form.is_valid() on an existing submission: the content validates, a
\* submission is not confirmed and discarded at once, and a discarded
\* submission (a tombstone) accepts nothing but a repeated discard
FormIsValid(d, debate, id, post) ==
    /\ post.valid
    /\ ~(post.confirmed /\ post.discarded)
    /\ d.subs[debate][id].discarded => post.discarded

\* the specification defines no operation that takes the confirmation of a
\* confirmed submission back; such a POST is not explored
PostInScope(d, debate, id, post) ==
    LET row == d.subs[debate][id]
    IN ~(row.confirmed /\ ~row.discarded /\ ~post.confirmed /\ ~post.discarded)

\* a row losing its confirmation
Unconfirm(row) ==
    [row EXCEPT !.confirmed = FALSE, !.confirmer = None, !.confirm_timestamp = None]

\* confirmSubmission: every other confirmed row is unconfirmed, the target is
\* confirmed, the debate becomes CONFIRMED
FormConfirm(d, debate, id) ==
    LET rows == d.subs[debate]
        rows2 == [i \in 1..Len(rows) |->
                    IF i = id THEN [rows[i] EXCEPT !.confirmed = TRUE]
                    ELSE IF rows[i].confirmed THEN Unconfirm(rows[i])
                    ELSE rows[i]]
    IN [d EXCEPT !.subs[debate] = rows2,
                 !.result_status[debate] = STATUS_CONFIRMED]

\* a discard that sets the tombstone and leaves the confirmation in place
FormDiscardKeepsConfirmed(d, debate, id) ==
    LET rows == d.subs[debate]
        rows2 == [rows EXCEPT ![id].discarded = TRUE]
    IN [d EXCEPT !.subs[debate] = rows2,
                 !.result_status[debate] = RecomputeStatus(rows2)]

\* a discard that deletes the row instead of setting the tombstone
FormDiscardDeletes(d, debate, id) ==
    LET rows == d.subs[debate]
        rows2 == [i \in 1..(Len(rows) - 1) |->
                    IF i < id THEN rows[i] ELSE rows[i + 1]]
    IN [d EXCEPT !.subs[debate] = rows2,
                 !.result_status[debate] = RecomputeStatus(rows2)]

\* discardSubmission: the tombstone is set, a confirmation is cleared, the
\* debate status is recomputed
FormDiscard(d, debate, id) ==
    LET rows == d.subs[debate]
        rows2 == [rows EXCEPT ![id] = [Unconfirm(@) EXCEPT !.discarded = TRUE]]
    IN [d EXCEPT !.subs[debate] = rows2,
                 !.result_status[debate] = RecomputeStatus(rows2)]

\* form.save() on an existing submission
FormSave(d, debate, id, post) ==
    IF d.subs[debate][id].discarded THEN d
    ELSE IF post.discarded THEN FormDiscard(d, debate, id)
    ELSE IF post.confirmed THEN FormConfirm(d, debate, id)
    ELSE d

\* the view's ballotsub object after form.save(): the form sets the two
\* flags on the object it was given
FormMem(mem, post) ==
    IF mem.discarded THEN mem
    ELSE IF post.discarded THEN [Unconfirm(mem) EXCEPT !.discarded = TRUE]
    ELSE [mem EXCEPT !.confirmed = post.confirmed]

\* the next version counted from the submissions that are not discarded
NextVersionOfLive(rows) ==
    Cardinality({i \in 1..Len(rows) : ~rows[i].discarded}) + 1

\* the next version of a debate: one more than the largest so far
NextVersion(rows) ==
    IF rows = <<>> THEN 1
    ELSE (CHOOSE m \in {rows[i].version : i \in 1..Len(rows)} :
             \A i \in 1..Len(rows) : rows[i].version <= m) + 1

\* form.save() on a new submission (createSubmission): the version is
\* allocated and the row stored in one step; NO_RESULT becomes
\* AWAITING_CONFIRMATION
FormSaveNew(d, debate, submitter) ==
    LET rows == d.subs[debate]
        row == NewBallotSubmission(NextVersion(rows), submitter)
    IN [d EXCEPT !.subs[debate] = Append(rows, row),
                 !.result_status[debate] =
                     IF @ = STATUS_NONE THEN STATUS_DRAFT ELSE @]

-----------------------------------------------------------------------------
(* The handlers of views.py, each as a function of the database.  A handler *)
(* is the composition of its database accesses, which SpecConc runs as      *)
(* separate steps.                                                          *)

\* toggle_postponed: the status flips, whatever the debate's submissions
TogglePostponedMem(mem) ==
    [mem EXCEPT !.result_status =
        IF @ = STATUS_POSTPONED THEN STATUS_NONE ELSE STATUS_POSTPONED]

toggle_postponed(d, debate) ==
    [db |-> SaveDebate(d, debate, TogglePostponedMem(LoadDebate(d, debate))),
     result |-> "ok"]

\* edit_ballotset, get_object_or_404: the view's ballotsub object
EditLoad(d, debate, id) == d.subs[debate][id]

\* edit_ballotset, form.is_valid() and form.save()
EditForm(d, debate, id, post, mem) ==
    IF ~FormIsValid(d, debate, id, post)
    THEN [db |-> d, mem |-> mem, valid |-> FALSE]
    ELSE [db |-> FormSave(d, debate, id, post), mem |-> FormMem(mem, post),
          valid |-> TRUE]

\* the confirm branch without the assignment of the confirmer
StampTimeOnly(mem, user) == [mem EXCEPT !.confirm_timestamp = "now"]

\* edit_ballotset, the confirm branch: the view stamps confirmer and time
StampConfirm(mem, user) ==
    [mem EXCEPT !.confirmer = user, !.confirm_timestamp = "now"]

\* edit_ballotset, the branch on the object's flags: only a confirmed
\* object that is not discarded is stamped and saved again
EditStamps(mem) == ~mem.discarded /\ mem.confirmed

EditViewSave(d, debate, id, mem, user) ==
    IF EditStamps(mem)
    THEN SaveBallotsub(d, debate, id, StampConfirm(mem, user))
    ELSE d

\* edit_ballotset, the action type logged
EditActionType(mem) ==
    IF mem.discarded THEN ACTION_TYPE_BALLOT_DISCARD
    ELSE IF mem.confirmed THEN ACTION_TYPE_BALLOT_CONFIRM
    ELSE ACTION_TYPE_BALLOT_EDIT

EditLog(d, debate, id, mem) == Log(d, EditActionType(mem), debate, id)

edit_ballotset(d, user, debate, id, post) ==
    LET f == EditForm(d, debate, id, post, EditLoad(d, debate, id))
    IN IF ~f.valid
       THEN [db |-> d, result |-> "invalid"]
       ELSE [db |-> EditLog(EditViewSave(f.db, debate, id, f.mem, user),
                            debate, id, f.mem),
             result |-> "ok"]

\* the context entry that greys out the confirm checkbox
disable_confirm(user, submitter, pref, superuser) ==
    user = submitter /\ ~pref /\ ~superuser

\* new_ballotset, the chair check
NewCheck(debate) == IF has_chair(debate) THEN "ok" ELSE "MissingChairError"

\* new_ballotset and public_new_ballotset, form.is_valid() and form.save()
NewForm(d, debate, submitter, post) ==
    IF ~post.valid
    THEN [db |-> d, id |-> 0, valid |-> FALSE]
    ELSE [db |-> FormSaveNew(d, debate, submitter),
          id |-> Len(d.subs[debate]) + 1, valid |-> TRUE]

new_ballotset(d, user, debate, post) ==
    IF NewCheck(debate) # "ok"
    THEN [db |-> d, result |-> NewCheck(debate)]
    ELSE LET f == NewForm(d, debate, user, post)
         IN IF ~f.valid
            THEN [db |-> d, result |-> "invalid"]
            ELSE [db |-> Log(f.db, ACTION_TYPE_BALLOT_CREATE, debate, f.id),
                  result |-> "ok"]

\* the two denials with the allocation looked up before the release
PublicCheckAllocationFirst(round, adj) ==
    IF AdjDebate(adj) = None \/ DebateRound(AdjDebate(adj)) # current_round
    THEN "NoAssignmentThisRound"
    ELSE IF round.draw_status # STATUS_RELEASED \/ ~round.motions_released
         THEN "NotReleasedYet"
         ELSE "ok"

\* public_new_ballotset, the two denials
PublicCheck(round, adj) ==
    IF round.draw_status # STATUS_RELEASED \/ ~round.motions_released
    THEN "NotReleasedYet"
    ELSE IF AdjDebate(adj) = None \/ DebateRound(AdjDebate(adj)) # current_round
         THEN "NoAssignmentThisRound"
         ELSE "ok"

public_new_ballotset(d, round, adj, post) ==
    IF PublicCheck(round, adj) # "ok"
    THEN [db |-> d, result |-> PublicCheck(round, adj)]
    ELSE LET f == NewForm(d, AdjDebate(adj), None, post)
         IN IF ~f.valid
            THEN [db |-> d, result |-> "invalid"]
            ELSE [db |-> Log(f.db, ACTION_TYPE_BALLOT_SUBMIT, AdjDebate(adj), f.id),
                  result |-> "ok"]

\* get_debate_from_ballot_checkin_request: the debate, or the error raised
VenuesNamed(name) == {v \in Venues : iexact(VenueName(v), name)}

DebatesAt(round, venue) ==
    {x \in Debates : DebateRound(x) = round /\ DebateVenue(x) = venue}

\* the lookup without the test of ballot_in
get_debate_whether_checked_in(d, round, name) ==
    IF VenuesNamed(name) = {}
    THEN [debate |-> None, error |-> "VenueNotFoundError"]
    ELSE LET venue == CHOOSE v \in VenuesNamed(name) : TRUE
         IN IF DebatesAt(round, venue) = {}
            THEN [debate |-> None, error |-> "NoDebateAtVenueError"]
            ELSE [debate |-> CHOOSE x \in DebatesAt(round, venue) : TRUE,
                  error |-> None]

get_debate_from_ballot_checkin_request(d, round, name) ==
    IF VenuesNamed(name) = {}
    THEN [debate |-> None, error |-> "VenueNotFoundError"]
    ELSE LET venue == CHOOSE v \in VenuesNamed(name) : TRUE
         IN IF DebatesAt(round, venue) = {}
            THEN [debate |-> None, error |-> "NoDebateAtVenueError"]
            ELSE LET debate == CHOOSE x \in DebatesAt(round, venue) : TRUE
                 IN IF d.ballot_in[debate]
                    THEN [debate |-> None, error |-> "AlreadyCheckedInError"]
                    ELSE [debate |-> debate, error |-> None]

\* ballot_checkin_number_left
ballot_checkin_number_left(d, round) ==
    Cardinality({x \in Debates : DebateRound(x) = round /\ ~d.ballot_in[x]})

\* post_ballot_checkin
CheckinMem(mem) == [mem EXCEPT !.ballot_in = TRUE]

post_ballot_checkin(d, round, name) ==
    LET got == get_debate_from_ballot_checkin_request(d, round, name)
    IN IF got.error # None
       THEN [db |-> d, result |-> got.error]
       ELSE [db |-> Log(SaveDebate(d, got.debate,
                                   CheckinMem(LoadDebate(d, got.debate))),
                        ACTION_TYPE_BALLOT_CHECKIN, got.debate, 0),
             result |-> "ok"]

\* the round of a debate as a request of the public finds it: its seq, the
\* seq of the tournament's current round, and whether it is silent
PublicRoundStates == [seq : {1, 2, 3}, current_seq : {2}, silent : BOOLEAN]

\* PublicResultsForRoundView.get: the two refusals
PublicResultsForRoundView_get(round, all_results_released) ==
    IF round.silent /\ ~all_results_released
    THEN "public_results_silent"
    ELSE IF round.seq >= round.current_seq /\ ~all_results_released
         THEN "public_results_not_available"
         ELSE "served"

\* public_ballots_view: the answer, and the submission shown
public_ballots_view(d, debate, round, all_results_released) ==
    IF d.result_status[debate] # STATUS_CONFIRMED
    THEN [result |-> "Http404", ballotsub |-> 0]
    ELSE IF (round.seq > round.current_seq \/ round.silent)
                /\ ~all_results_released
         THEN [result |-> "Http404", ballotsub |-> 0]
         ELSE IF Confirmed(d, debate) = {}
              THEN [result |-> "Http404", ballotsub |-> 0]
              ELSE [result |-> "served",
                    ballotsub |-> CHOOSE i \in Confirmed(d, debate) : TRUE]

-----------------------------------------------------------------------------
(* Spec: one request at a time, each handler one step *)

Init ==
    /\ db = [subs |-> [d \in Debates |-> <<>>],
             result_status |-> [d \in Debates |-> STATUS_NONE],
             ballot_in |-> [d \in Debates |-> FALSE],
             log |-> EmptyBag]
    /\ req = EmptyBag

\* the bounds of the exploration
CanLog == BagCardinality(db.log) < MaxLog

Table(d) == {x \in Debates \X (1..MaxSubs) : x[2] <= Len(d.subs[x[1]])}

CanCreate == Cardinality(Table(db)) < MaxSubs

\* the inputs of the two creating handlers: a new ballot carries no flags
NewPostData == {post \in PostData : ~post.confirmed /\ ~post.discarded}

TogglePostponedStep(debate) ==
    /\ db' = toggle_postponed(db, debate).db
    /\ UNCHANGED req

TogglePostponed == \E debate \in Debates : TogglePostponedStep(debate)

EditBallotsetStep(user, debate, id, post) ==
    /\ CanLog
    /\ id \in 1..Len(db.subs[debate])
    /\ PostInScope(db, debate, id, post)
    /\ db' = edit_ballotset(db, user, debate, id, post).db
    /\ UNCHANGED req

EditBallotset ==
    \E user \in Users, debate \in Debates, post \in PostData, id \in 1..MaxSubs :
        EditBallotsetStep(user, debate, id, post)

NewBallotsetStep(user, debate, post) ==
    /\ CanLog /\ CanCreate
    /\ db' = new_ballotset(db, user, debate, post).db
    /\ UNCHANGED req

NewBallotset ==
    \E user \in Users, debate \in Debates, post \in NewPostData :
        NewBallotsetStep(user, debate, post)

PublicNewBallotsetStep(round, adj, post) ==
    /\ CanLog /\ CanCreate
    /\ db' = public_new_ballotset(db, round, adj, post).db
    /\ UNCHANGED req

PublicNewBallotset ==
    \E round \in RoundStates, adj \in Adjudicators, post \in NewPostData :
        PublicNewBallotsetStep(round, adj, post)

PostBallotCheckinStep(round, name) ==
    /\ CanLog
    /\ db' = post_ballot_checkin(db, round, name).db
    /\ UNCHANGED req

PostBallotCheckin ==
    \E round \in Rounds, name \in CheckinNames : PostBallotCheckinStep(round, name)

Next ==
    \/ TogglePostponed
    \/ EditBallotset
    \/ NewBallotset
    \/ PublicNewBallotset
    \/ PostBallotCheckin

Spec == Init /\ [][Next]_vars

-----------------------------------------------------------------------------
(* The interleaved specifications: the requests under way are a bag of      *)
(* records, each holding its place in its handler and the objects the       *)
(* handler holds in memory; a step is one database access of one request.   *)

\* a field a request does not hold
Nothing == [none |-> TRUE]

Request(pc, user, debate, id, post, mem) ==
    [pc |-> pc, user |-> user, debate |-> debate, id |-> id, post |-> post,
     mem |-> mem]

InFlight == BagCardinality(req)

\* at most two requests are under way at once
CanStart == InFlight < Cardinality({"one", "other"})

At(pc) == {q \in BagToSet(req) : q.pc = pc}

Creating ==
    LET forms == At("n_form") \cup At("p_form")
        RECURSIVE Sum(_)
        Sum(S) == IF S = {} THEN 0
                  ELSE LET q == CHOOSE x \in S : TRUE
                       IN CopiesIn(q, req) + Sum(S \ {q})
    IN Sum(forms)

\* the bounds, counting what the requests under way will still write
CanLogConc == BagCardinality(db.log) + InFlight < MaxLog

CanCreateConc == Cardinality(Table(db)) + Creating < MaxSubs

Starts(request) == req' = req (+) SetToBag({request})

Moves(q, request) == req' = (req (-) SetToBag({q})) (+) SetToBag({request})

Ends(q) == req' = req (-) SetToBag({q})

\* toggle_postponed: Debate.objects.get
ToggleLoad ==
    \E debate \in Debates :
        /\ CanStart
        /\ Starts(Request("t_save", None, debate, 0, Nothing,
                          LoadDebate(db, debate)))
        /\ UNCHANGED db

\* toggle_postponed: debate.save()
ToggleSave ==
    \E q \in At("t_save") :
        /\ db' = SaveDebate(db, q.debate, TogglePostponedMem(q.mem))
        /\ Ends(q)

\* edit_ballotset: get_object_or_404
EditLoadStep ==
    \E user \in Users, debate \in Debates, post \in PostData :
        \E id \in 1..Len(db.subs[debate]) :
            /\ CanStart /\ CanLogConc
            /\ PostInScope(db, debate, id, post)
            /\ Starts(Request("e_form", user, debate, id, post,
                              EditLoad(db, debate, id)))
            /\ UNCHANGED db

\* edit_ballotset: form.is_valid() and form.save()
EditFormStep ==
    \E q \in At("e_form") :
        LET f == EditForm(db, q.debate, q.id, q.post, q.mem)
        IN /\ PostInScope(db, q.debate, q.id, q.post)
           /\ db' = f.db
           /\ IF ~f.valid THEN Ends(q)
              ELSE Moves(q, Request(IF EditStamps(f.mem) THEN "e_save" ELSE "e_log",
                                    q.user, q.debate, q.id, Nothing, f.mem))

\* edit_ballotset: ballotsub.save() of the confirm branch
EditSaveStep ==
    \E q \in At("e_save") :
        /\ db' = EditViewSave(db, q.debate, q.id, q.mem, q.user)
        /\ Moves(q, Request("e_log", None, q.debate, q.id, Nothing, q.mem))

\* edit_ballotset: ActionLogEntry.objects.log
EditLogStep ==
    \E q \in At("e_log") :
        /\ db' = EditLog(db, q.debate, q.id, q.mem)
        /\ Ends(q)

\* new_ballotset: the chair check; a debate without a chair ends the request
NewCheckStep ==
    \E user \in Users, debate \in Debates, post \in NewPostData :
        /\ CanStart /\ CanLogConc /\ CanCreateConc
        /\ NewCheck(debate) = "ok"
        /\ Starts(Request("n_form", user, debate, 0, post, Nothing))
        /\ UNCHANGED db

\* new_ballotset: form.is_valid() and form.save()
NewFormStep ==
    \E q \in At("n_form") :
        LET f == NewForm(db, q.debate, q.user, q.post)
        IN /\ db' = f.db
           /\ IF ~f.valid THEN Ends(q)
              ELSE Moves(q, Request("n_log", None, q.debate, f.id, Nothing,
                                    f.db.subs[q.debate][f.id]))

\* new_ballotset: ActionLogEntry.objects.log
NewLogStep ==
    \E q \in At("n_log") :
        /\ db' = Log(db, ACTION_TYPE_BALLOT_CREATE, q.debate, q.id)
        /\ Ends(q)

\* public_new_ballotset: the two denials end the request
PublicCheckStep ==
    \E round \in RoundStates, adj \in Adjudicators, post \in NewPostData :
        /\ CanStart /\ CanLogConc /\ CanCreateConc
        /\ PublicCheck(round, adj) = "ok"
        /\ Starts(Request("p_form", None, AdjDebate(adj), 0, post, Nothing))
        /\ UNCHANGED db

\* public_new_ballotset: form.is_valid() and form.save()
PublicFormStep ==
    \E q \in At("p_form") :
        LET f == NewForm(db, q.debate, None, q.post)
        IN /\ db' = f.db
           /\ IF ~f.valid THEN Ends(q)
              ELSE Moves(q, Request("p_log", None, q.debate, f.id, Nothing,
                                    f.db.subs[q.debate][f.id]))

\* public_new_ballotset: ActionLogEntry.objects.log
PublicLogStep ==
    \E q \in At("p_log") :
        /\ db' = Log(db, ACTION_TYPE_BALLOT_SUBMIT, q.debate, q.id)
        /\ Ends(q)

\* post_ballot_checkin: get_debate_from_ballot_checkin_request; an error
\* ends the request
CheckinGetStep ==
    \E round \in Rounds, name \in CheckinNames :
        LET got == get_debate_from_ballot_checkin_request(db, round, name)
        IN /\ CanStart /\ CanLogConc
           /\ got.error = None
           /\ Starts(Request("c_save", None, got.debate, 0, Nothing,
                             LoadDebate(db, got.debate)))
           /\ UNCHANGED db

\* post_ballot_checkin: debate.save()
CheckinSaveStep ==
    \E q \in At("c_save") :
        /\ db' = SaveDebate(db, q.debate, CheckinMem(q.mem))
        /\ Moves(q, Request("c_log", None, q.debate, 0, Nothing, Nothing))

\* post_ballot_checkin: ActionLogEntry.objects.log
CheckinLogStep ==
    \E q \in At("c_log") :
        /\ db' = Log(db, ACTION_TYPE_BALLOT_CHECKIN, q.debate, 0)
        /\ Ends(q)

\* the handlers that create, confirm and discard submissions
NextConc ==
    \/ EditLoadStep \/ EditFormStep \/ EditSaveStep \/ EditLogStep
    \/ NewCheckStep \/ NewFormStep \/ NewLogStep
    \/ PublicCheckStep \/ PublicFormStep \/ PublicLogStep

SpecConc == Init /\ [][NextConc]_vars

\* the handlers that write the Debate row
NextDebateConc ==
    \/ ToggleLoad \/ ToggleSave
    \/ CheckinGetStep \/ CheckinSaveStep \/ CheckinLogStep

SpecDebateConc == Init /\ [][NextDebateConc]_vars

-----------------------------------------------------------------------------
(* SpecRaise: one request at a time, where ActionLogEntry.objects.log may    *)
(* raise.  No handler catches the exception and views.py opens no            *)
(* transaction: the handler ends there, and what it has saved stays saved.   *)
(* A failure of the log is explored from the states whose log is complete,   *)
(* that is, the first failure of a run.                                      *)

\* every row and every flag of the database has its entry in the log
LogComplete(d) ==
    \A debate \in Debates :
        /\ d.ballot_in[debate]
              => BagIn([type |-> ACTION_TYPE_BALLOT_CHECKIN, debate |-> debate,
                        ballotsub |-> 0], d.log)
        /\ \A i \in 1..Len(d.subs[debate]) :
              /\ \E type \in {ACTION_TYPE_BALLOT_CREATE, ACTION_TYPE_BALLOT_SUBMIT} :
                    BagIn([type |-> type, debate |-> debate, ballotsub |-> i],
                          d.log)
              /\ d.subs[debate][i].confirmed
                    => BagIn([type |-> ACTION_TYPE_BALLOT_CONFIRM,
                              debate |-> debate, ballotsub |-> i], d.log)
              /\ d.subs[debate][i].discarded
                    => BagIn([type |-> ACTION_TYPE_BALLOT_DISCARD,
                              debate |-> debate, ballotsub |-> i], d.log)

\* edit_ballotset up to the call of the log, which raises
edit_ballotset_log_raises(d, user, debate, id, post) ==
    LET f == EditForm(d, debate, id, post, EditLoad(d, debate, id))
    IN IF ~f.valid
       THEN [db |-> d, result |-> "invalid"]
       ELSE [db |-> EditViewSave(f.db, debate, id, f.mem, user),
             result |-> "error"]

\* new_ballotset up to the call of the log, which raises
new_ballotset_log_raises(d, user, debate, post) ==
    IF NewCheck(debate) # "ok"
    THEN [db |-> d, result |-> NewCheck(debate)]
    ELSE LET f == NewForm(d, debate, user, post)
         IN IF ~f.valid
            THEN [db |-> d, result |-> "invalid"]
            ELSE [db |-> f.db, result |-> "error"]

\* public_new_ballotset up to the call of the log, which raises
public_new_ballotset_log_raises(d, round, adj, post) ==
    IF PublicCheck(round, adj) # "ok"
    THEN [db |-> d, result |-> PublicCheck(round, adj)]
    ELSE LET f == NewForm(d, AdjDebate(adj), None, post)
         IN IF ~f.valid
            THEN [db |-> d, result |-> "invalid"]
            ELSE [db |-> f.db, result |-> "error"]

\* post_ballot_checkin up to the call of the log, which raises
post_ballot_checkin_log_raises(d, round, name) ==
    LET got == get_debate_from_ballot_checkin_request(d, round, name)
    IN IF got.error # None
       THEN [db |-> d, result |-> got.error]
       ELSE [db |-> SaveDebate(d, got.debate,
                               CheckinMem(LoadDebate(d, got.debate))),
             result |-> "error"]

EditBallotsetLogRaises ==
    \E user \in Users, debate \in Debates, post \in PostData, id \in 1..MaxSubs :
        /\ LogComplete(db)
        /\ id \in 1..Len(db.subs[debate])
        /\ PostInScope(db, debate, id, post)
        /\ db' = edit_ballotset_log_raises(db, user, debate, id, post).db
        /\ UNCHANGED req

NewBallotsetLogRaises ==
    \E user \in Users, debate \in Debates, post \in NewPostData :
        /\ LogComplete(db)
        /\ CanCreate
        /\ db' = new_ballotset_log_raises(db, user, debate, post).db
        /\ UNCHANGED req

PublicNewBallotsetLogRaises ==
    \E round \in RoundStates, adj \in Adjudicators, post \in NewPostData :
        /\ LogComplete(db)
        /\ CanCreate
        /\ db' = public_new_ballotset_log_raises(db, round, adj, post).db
        /\ UNCHANGED req

PostBallotCheckinLogRaises ==
    \E round \in Rounds, name \in CheckinNames :
        /\ LogComplete(db)
        /\ db' = post_ballot_checkin_log_raises(db, round, name).db
        /\ UNCHANGED req

NextRaise ==
    \/ Next
    \/ EditBallotsetLogRaises
    \/ NewBallotsetLogRaises
    \/ PublicNewBallotsetLogRaises
    \/ PostBallotCheckinLogRaises

SpecRaise == Init /\ [][NextRaise]_vars

-----------------------------------------------------------------------------
(* SpecHist: ballots_status as a function of what it reads.  Here db holds   *)
(* the part of the database the handler reads (the BallotSubmission rows of  *)
(* the current round in the order of their timestamps, the status of their   *)
(* debates and the number of debates of the round) and req the response.     *)

\* ballot submissions in one response before the inputs are no longer drawn
MaxBallots == 3

\* intervals = 20
intervals == 20

\* the debates of the round that have submissions, the ages in minutes of
\* the submissions, and the numbers of debates of the round
HistDebates == {"h1", "h2", "h3"}
Minutes == {10, 20, 30}
RoundSizes == {2, 10}

\* list(BallotSubmission.objects.filter(...).order_by('timestamp')): oldest
\* first, discarded submissions included
BallotLists ==
    UNION {{s \in [1..n -> [minutes_ago : Minutes, debate : HistDebates]] :
               \A k \in 1..(n - 1) : s[k].minutes_ago >= s[k + 1].minutes_ago} :
           n \in 0..MaxBallots}

BallotDebates(ballots) == {ballots[k].debate : k \in 1..Len(ballots)}

\* a debate with submissions can have any status (toggle_postponed sets it
\* whatever the submissions are); the status of the others is not read
HistInputs ==
    {h \in [ballots : BallotLists,
            result_status : [HistDebates -> {STATUS_NONE, STATUS_POSTPONED,
                                             STATUS_DRAFT, STATUS_CONFIRMED}],
            debates : RoundSizes] :
        /\ Cardinality(BallotDebates(h.ballots)) <= h.debates
        /\ \A x \in HistDebates \ BallotDebates(h.ballots) :
              h.result_status[x] = STATUS_NONE}

\* time_period = (i * chunks) + start_entry with chunks = (end_entry -
\* start_entry) / intervals, in true division; kept multiplied by intervals
TimePeriodTimesIntervals(start_entry, end_entry, i) ==
    intervals * start_entry + i * (end_entry - start_entry)

\* the test with the comparison the other way round
ReachedAfter(ago, start_entry, end_entry, i) ==
    intervals * ago <= TimePeriodTimesIntervals(start_entry, end_entry, i)

\* minutes_ago(b.timestamp) >= time_period
Reached(ago, start_entry, end_entry, i) ==
    intervals * ago >= TimePeriodTimesIntervals(start_entry, end_entry, i)

\* the inner loop: the submissions reached whose debate has the status
Counted(h, i, status) ==
    LET start_entry == h.ballots[1].minutes_ago
        end_entry == h.ballots[Len(h.ballots)].minutes_ago
    IN Cardinality({k \in 1..Len(h.ballots) :
           /\ Reached(h.ballots[k].minutes_ago, start_entry, end_entry, i)
           /\ h.result_status[h.ballots[k].debate] = status})

\* stat = [int(time_period), debates, 0, 0] after the inner loop; the time
\* period is not negative, so int() is the integer quotient
Stat(h, i) ==
    LET start_entry == h.ballots[1].minutes_ago
        end_entry == h.ballots[Len(h.ballots)].minutes_ago
    IN <<TimePeriodTimesIntervals(start_entry, end_entry, i) \div intervals,
         h.debates - Counted(h, i, STATUS_DRAFT) - Counted(h, i, STATUS_CONFIRMED),
         Counted(h, i, STATUS_DRAFT),
         Counted(h, i, STATUS_CONFIRMED)>>

\* ballots_status: the list of stats, for i in range(intervals + 1)
ballots_status(h) ==
    IF Len(h.ballots) = 0 THEN <<>>
    ELSE [n \in 1..(intervals + 1) |-> Stat(h, n - 1)]

InitHist ==
    /\ db \in HistInputs
    /\ req = <<>>

BallotsStatus ==
    /\ db.ballots # <<>>
    /\ req = <<>>
    /\ req' = ballots_status(db)
    /\ UNCHANGED db

NextHist == BallotsStatus

SpecHist == InitHist /\ [][NextHist]_vars

-----------------------------------------------------------------------------
(* The claims *)

ConfirmPost == [confirmed |-> TRUE, discarded |-> FALSE, valid |-> TRUE]

DiscardPost == [confirmed |-> FALSE, discarded |-> TRUE, valid |-> TRUE]

LogHas(type, debate, id) ==
    BagIn([type |-> type, debate |-> debate, ballotsub |-> id], db.log)

\* C1: under any interleaving of creating, confirming and discarding
\* requests, every debate has at most one submission that is confirmed and
\* not discarded.
C1_AtMostOneConfirmed ==
    \A debate \in Debates : Cardinality(Confirmed(db, debate)) <= 1

\* C2: creating requests that run interleaved on one debate are given
\* versions without duplicates or gaps: the versions stored for a debate are
\* exactly 1..n, and two requests that have just stored their submission
\* hold different versions.
C2_VersionsContiguous ==
    /\ \A debate \in Debates :
          {db.subs[debate][i].version : i \in 1..Len(db.subs[debate])}
              = 1..Len(db.subs[debate])
    /\ \A q1 \in At("n_log") \cup At("p_log") :
          /\ CopiesIn(q1, req) = 1
          /\ \A q2 \in At("n_log") \cup At("p_log") :
                (q1 # q2 /\ q1.debate = q2.debate)
                    => q1.mem.version # q2.mem.version

\* a staff request and a public request have both stored a submission of
\* the same debate and neither has finished
C2_Witness ==
    \E q1 \in At("n_log"), q2 \in At("p_log") :
        /\ q1.debate = q2.debate
        /\ {q1.mem.version, q2.mem.version} = {1, 2}

\* C3: a step of edit_ballotset that confirms submission id (not discarded)
\* as user leaves it confirmed with confirmer = user and a confirm_timestamp,
\* leaves every other submission of the debate unconfirmed with confirmer and
\* confirm_timestamp cleared if it was confirmed, and the debate CONFIRMED.
C3_ConfirmEffect ==
    [][\A user \in Users, debate \in Debates, id \in 1..MaxSubs :
          (/\ EditBallotsetStep(user, debate, id, ConfirmPost)
           /\ ~db.subs[debate][id].discarded)
          => /\ db'.subs[debate][id].confirmed
             /\ db'.subs[debate][id].confirmer = user
             /\ db'.subs[debate][id].confirm_timestamp # None
             /\ \A j \in 1..Len(db.subs[debate]) :
                   (j # id /\ db.subs[debate][j].confirmed)
                       => /\ ~db'.subs[debate][j].confirmed
                          /\ db'.subs[debate][j].confirmer = None
                          /\ db'.subs[debate][j].confirm_timestamp = None
             /\ db'.result_status[debate] = STATUS_CONFIRMED]_vars

\* both submissions of a debate have been confirmed in turn: the second
\* holds the confirmation, the first has lost it
C3_Witness ==
    \E debate \in Debates :
        /\ Len(db.subs[debate]) = 2
        /\ LogHas(ACTION_TYPE_BALLOT_CONFIRM, debate, 1)
        /\ LogHas(ACTION_TYPE_BALLOT_CONFIRM, debate, 2)
        /\ db.subs[debate][2].confirmed
        /\ db.subs[debate][2].confirmer \in Users
        /\ ~db.subs[debate][1].confirmed
        /\ db.subs[debate][1].confirmer = None
        /\ db.result_status[debate] = STATUS_CONFIRMED

\* C4: toggle_postponed on a debate with a confirmed submission is refused
\* with InvalidStateError and changes nothing.
C4_ToggleRefused ==
    [][\A debate \in Debates :
          (TogglePostponedStep(debate) /\ Confirmed(db, debate) # {})
          => /\ toggle_postponed(db, debate).result = "InvalidStateError"
             /\ db' = db]_vars

\* C5: for a debate without a confirmed submission, toggle_postponed applied
\* twice in a row gives back the result_status it started from.
C5_ToggleTwice ==
    \A debate \in Debates :
        Confirmed(db, debate) = {}
        => toggle_postponed(toggle_postponed(db, debate).db, debate)
               .db.result_status[debate] = db.result_status[debate]

\* C6: a confirming POST of edit_ballotset by the submission's own submitter,
\* where self-confirmation is not allowed (preference off, user not a
\* superuser), fails with SelfConfirmationError, leaves the submission
\* unconfirmed and logs no confirmation.
C6_SelfConfirmRefused ==
    [][\A user \in Users, debate \in Debates, id \in 1..MaxSubs, pref \in BOOLEAN :
          (/\ EditBallotsetStep(user, debate, id, ConfirmPost)
           /\ ~db.subs[debate][id].discarded
           /\ ~db.subs[debate][id].confirmed
           /\ disable_confirm(user, db.subs[debate][id].submitter, pref,
                              is_superuser(user)))
          => /\ edit_ballotset(db, user, debate, id, ConfirmPost).result
                    = "SelfConfirmationError"
             /\ ~db'.subs[debate][id].confirmed
             /\ LogCount(db', ACTION_TYPE_BALLOT_CONFIRM, debate)
                    = LogCount(db, ACTION_TYPE_BALLOT_CONFIRM, debate)]_vars

\* C7: a step of edit_ballotset that discards the confirmed submission of a
\* debate leaves it discarded and unconfirmed, and the debate
\* AWAITING_CONFIRMATION if another submission that is not discarded remains,
\* NO_RESULT otherwise.
C7_DiscardConfirmed ==
    [][\A user \in Users, debate \in Debates, id \in 1..MaxSubs :
          (/\ EditBallotsetStep(user, debate, id, DiscardPost)
           /\ id \in Confirmed(db, debate))
          => /\ db'.subs[debate][id].discarded
             /\ ~db'.subs[debate][id].confirmed
             /\ db'.result_status[debate] =
                    IF Live(db, debate) \ {id} # {} THEN STATUS_DRAFT
                    ELSE STATUS_NONE]_vars

\* the first submission of a debate was confirmed and then discarded while
\* the second stays: the debate awaits confirmation
C7_Witness ==
    \E debate \in Debates :
        /\ Len(db.subs[debate]) = 2
        /\ LogHas(ACTION_TYPE_BALLOT_CONFIRM, debate, 1)
        /\ LogHas(ACTION_TYPE_BALLOT_DISCARD, debate, 1)
        /\ db.subs[debate][1].discarded
        /\ ~db.subs[debate][1].confirmed
        /\ ~db.subs[debate][2].discarded
        /\ db.result_status[debate] = STATUS_DRAFT

\* C8: discarding a submission that is already discarded changes no
\* submission, not the debate's result_status, and logs no further discard.
C8_RediscardNoOp ==
    [][\A user \in Users, debate \in Debates, id \in 1..MaxSubs :
          (/\ EditBallotsetStep(user, debate, id, DiscardPost)
           /\ db.subs[debate][id].discarded)
          => /\ db'.subs = db.subs
             /\ db'.result_status = db.result_status
             /\ LogCount(db', ACTION_TYPE_BALLOT_DISCARD, debate)
                    = LogCount(db, ACTION_TYPE_BALLOT_DISCARD, debate)]_vars

\* C9: creating a submission for a debate without a chair fails with
\* MissingChairError and stores nothing, by new_ballotset and, once the
\* round is released and the adjudicator is on the debate, by
\* public_new_ballotset.
C9_MissingChair ==
    [][/\ \A user \in Users, debate \in Debates, post \in NewPostData :
             (NewBallotsetStep(user, debate, post) /\ ~has_chair(debate))
             => /\ new_ballotset(db, user, debate, post).result
                       = "MissingChairError"
                /\ db' = db
       /\ \A round \in RoundStates, adj \in Adjudicators, post \in NewPostData :
             (/\ PublicNewBallotsetStep(round, adj, post)
              /\ PublicCheck(round, adj) = "ok"
              /\ ~has_chair(AdjDebate(adj)))
             => /\ public_new_ballotset(db, round, adj, post).result
                       = "MissingChairError"
                /\ db' = db]_vars

\* two names that differ at most in the case of their letters
SameUpToCase(a, b) ==
    /\ Len(a) = Len(b)
    /\ \A i \in 1..Len(a) : Lower(a[i]) = Lower(b[i])

\* C10: a checkin step for round and a name that equals, up to letter case,
\* the name of the venue of a debate of that round with ballot_in false
\* succeeds and sets ballot_in; from then on every checkin of that round and
\* venue is answered AlreadyCheckedInError, and ballot_in is never reset.
C10_Checkin ==
    [][/\ \A round \in Rounds, name \in CheckinNames, debate \in Debates :
             (/\ PostBallotCheckinStep(round, name)
              /\ DebateRound(debate) = round
              /\ SameUpToCase(VenueName(DebateVenue(debate)), name)
              /\ ~db.ballot_in[debate])
             => /\ post_ballot_checkin(db, round, name).result = "ok"
                /\ db'.ballot_in[debate]
       /\ \A debate \in Debates :
             db.ballot_in[debate]
             => /\ db'.ballot_in[debate]
                /\ \A name \in CheckinNames :
                      SameUpToCase(VenueName(DebateVenue(debate)), name)
                      => post_ballot_checkin(db', DebateRound(debate), name).result
                             = "AlreadyCheckedInError"]_vars

\* the ballot of d2 is checked in: its venue is named h2 and the only name
\* typed for it is H2
C10_Witness ==
    /\ db.ballot_in["d2"]
    /\ LogHas(ACTION_TYPE_BALLOT_CHECKIN, "d2", 0)
    /\ VenueName(DebateVenue("d2")) \notin CheckinNames

\* C11: post_ballot_checkin answers VenueNotFoundError when no venue has the
\* name, else NoDebateAtVenueError when no debate of the round is at the
\* venue, else AlreadyCheckedInError when the debate's ballot is in; in the
\* three cases no ballot_in changes, nothing is logged and the number of
\* ballots left is the same.
C11_CheckinErrors ==
    \A round \in Rounds, name \in CheckinNames :
        LET named == {v \in Venues : SameUpToCase(VenueName(v), name)}
            there == {x \in Debates :
                        DebateRound(x) = round /\ DebateVenue(x) \in named}
            out == post_ballot_checkin(db, round, name)
            untouched ==
                /\ out.db.ballot_in = db.ballot_in
                /\ out.db.log = db.log
                /\ ballot_checkin_number_left(out.db, round)
                       = ballot_checkin_number_left(db, round)
        IN /\ named = {}
                => out.result = "VenueNotFoundError" /\ untouched
           /\ (named # {} /\ there = {})
                => out.result = "NoDebateAtVenueError" /\ untouched
           /\ (named # {} /\ there # {} /\ \A x \in there : db.ballot_in[x])
                => out.result = "AlreadyCheckedInError" /\ untouched

\* the ballot of d1 has been checked in and that of d2 has not: a checkin
\* can now fail in each of the three ways
C11_Witness ==
    /\ db.ballot_in["d1"] /\ ~db.ballot_in["d2"]
    /\ LogHas(ACTION_TYPE_BALLOT_CHECKIN, "d1", 0)
    /\ post_ballot_checkin(db, "R1", <<"x", "1">>).result = "VenueNotFoundError"
    /\ post_ballot_checkin(db, "R2", <<"H", "2">>).result = "NoDebateAtVenueError"
    /\ post_ballot_checkin(db, "R1", <<"r", "1">>).result = "AlreadyCheckedInError"

\* C12: public_new_ballotset answers NotReleasedYet whenever the draw or the
\* motions of the round are not released, whatever the adjudicator's
\* allocation; else NoAssignmentThisRound when the adjudicator sits on no
\* panel of the round; else it goes on with the adjudicator's debate.  A
\* denial stores no submission and logs nothing.
C12_PublicGate ==
    \A round \in RoundStates, adj \in Adjudicators, post \in NewPostData :
        LET released == round.draw_status = STATUS_RELEASED
                            /\ round.motions_released
            out == public_new_ballotset(db, round, adj, post)
        IN /\ ~released => out.result = "NotReleasedYet" /\ out.db = db
           /\ (released /\ AdjDebate(adj) = None)
                => out.result = "NoAssignmentThisRound" /\ out.db = db
           /\ (released /\ AdjDebate(adj) # None /\ post.valid)
                => /\ out.result = "ok"
                   /\ Len(out.db.subs[AdjDebate(adj)])
                          = Len(db.subs[AdjDebate(adj)]) + 1

\* an adjudicator has been let through to the debate of their panel: the
\* debate has a submission without a submitter, logged as submitted
C12_Witness ==
    \E debate \in Debates, id \in 1..MaxSubs :
        /\ id <= Len(db.subs[debate])
        /\ db.subs[debate][id].submitter = None
        /\ LogHas(ACTION_TYPE_BALLOT_SUBMIT, debate, id)

\* C13: no step of creating, confirming or discarding removes a submission
\* or changes its version; a submission a step adds has a version greater
\* than that of every submission the debate had, discarded ones included,
\* and the first version of a debate is 1.
C13_VersionsGrow ==
    [][\A debate \in Debates :
          LET old == db.subs[debate]
              new == db'.subs[debate]
          IN /\ Len(new) >= Len(old)
             /\ \A i \in 1..Len(old) : new[i].version = old[i].version
             /\ \A j \in (Len(old) + 1)..Len(new) :
                   \A i \in 1..Len(old) : new[j].version > old[i].version
             /\ (old = <<>> /\ new # <<>>) => new[1].version = 1]_vars

\* a debate that keeps the tombstone of its first submission, version 1,
\* beside a second submission of version 2
C13_Witness ==
    \E debate \in Debates :
        /\ Len(db.subs[debate]) = 2
        /\ db.subs[debate][1].discarded
        /\ LogHas(ACTION_TYPE_BALLOT_DISCARD, debate, 1)
        /\ db.subs[debate][1].version = 1
        /\ db.subs[debate][2].version = 2

\* C14: after every step each submission has a confirmer exactly if it is
\* confirmed, and a valid POST of edit_ballotset that does not discard,
\* sent for a submission that is already confirmed, leaves its confirmer as
\* it was.
C14_ConfirmerIffConfirmed ==
    [][/\ \A debate \in Debates :
             \A i \in 1..Len(db'.subs[debate]) :
                 db'.subs[debate][i].confirmer # None
                     <=> db'.subs[debate][i].confirmed
       /\ \A user \in Users, debate \in Debates, id \in 1..MaxSubs,
               post \in PostData :
             (/\ EditBallotsetStep(user, debate, id, post)
              /\ db.subs[debate][id].confirmed
              /\ ~db.subs[debate][id].discarded
              /\ post.valid /\ ~post.discarded)
             => db'.subs[debate][id].confirmer
                    = db.subs[debate][id].confirmer]_vars

\* the first conjunct of C14 alone, as a property of every state
ConfirmerIffConfirmed ==
    \A debate \in Debates :
        \A i \in 1..Len(db.subs[debate]) :
            db.subs[debate][i].confirmer # None <=> db.subs[debate][i].confirmed

DebateState(d, debate) ==
    <<d.subs[debate], d.result_status[debate], d.ballot_in[debate]>>

\* one more log row of the type for the debate, and one more row in all
OneMore(type, debate) ==
    /\ LogCount(db', type, debate) = LogCount(db, type, debate) + 1
    /\ LogRows(db', debate) = LogRows(db, debate) + 1

\* C16: every step that changes a debate (a creation, a confirmation, a
\* discard, a checkin or a toggle of the postponement) adds exactly one
\* entry about that debate to the action log, of the kind of the step.
C16_OneAuditEntry ==
    [][/\ \A debate \in Debates :
             DebateState(db', debate) # DebateState(db, debate)
                 => LogRows(db', debate) = LogRows(db, debate) + 1
       /\ \A user \in Users, debate \in Debates, post \in NewPostData :
             (NewBallotsetStep(user, debate, post)
                  /\ DebateState(db', debate) # DebateState(db, debate))
             => OneMore(ACTION_TYPE_BALLOT_CREATE, debate)
       /\ \A round \in RoundStates, adj \in Adjudicators, post \in NewPostData :
             (PublicNewBallotsetStep(round, adj, post) /\ AdjDebate(adj) # None
                  /\ DebateState(db', AdjDebate(adj)) # DebateState(db, AdjDebate(adj)))
             => OneMore(ACTION_TYPE_BALLOT_SUBMIT, AdjDebate(adj))
       /\ \A user \in Users, debate \in Debates, id \in 1..MaxSubs :
             (EditBallotsetStep(user, debate, id, ConfirmPost)
                  /\ ~db.subs[debate][id].confirmed)
             => OneMore(ACTION_TYPE_BALLOT_CONFIRM, debate)
       /\ \A user \in Users, debate \in Debates, id \in 1..MaxSubs :
             (EditBallotsetStep(user, debate, id, DiscardPost)
                  /\ ~db.subs[debate][id].discarded)
             => OneMore(ACTION_TYPE_BALLOT_DISCARD, debate)
       /\ \A round \in Rounds, name \in CheckinNames, debate \in Debates :
             (PostBallotCheckinStep(round, name)
                  /\ ~db.ballot_in[debate] /\ db'.ballot_in[debate])
             => OneMore(ACTION_TYPE_BALLOT_CHECKIN, debate)]_vars

\* C17: no state shows a stored submission without its entry of creation,
\* a confirmed submission without its entry of confirmation, a discarded
\* submission without its entry of discard, or a checked-in ballot without
\* its entry of checkin, even where the append to the log has failed.
C17_NoMutationWithoutAudit ==
    \A debate \in Debates :
        /\ db.ballot_in[debate] => LogHas(ACTION_TYPE_BALLOT_CHECKIN, debate, 0)
        /\ \A i \in 1..Len(db.subs[debate]) :
              /\ \/ LogHas(ACTION_TYPE_BALLOT_CREATE, debate, i)
                 \/ LogHas(ACTION_TYPE_BALLOT_SUBMIT, debate, i)
              /\ db.subs[debate][i].confirmed
                    => LogHas(ACTION_TYPE_BALLOT_CONFIRM, debate, i)
              /\ db.subs[debate][i].discarded
                    => LogHas(ACTION_TYPE_BALLOT_DISCARD, debate, i)

\* the round of the histogram scenario: 10 debates, of which three are
\* confirmed, each with one submission, made 30, 20 and 10 minutes ago
HistogramScenario ==
    [ballots |-> <<[minutes_ago |-> 30, debate |-> "h1"],
                   [minutes_ago |-> 20, debate |-> "h2"],
                   [minutes_ago |-> 10, debate |-> "h3"]>>,
     result_status |-> [x \in HistDebates |-> STATUS_CONFIRMED],
     debates |-> 10]

\* the response has a checkpoint of that many minutes ago, and every such
\* checkpoint counts none debates as not entered and confirmed as confirmed
CheckpointCounts(minutes, none, confirmed) ==
    /\ \E n \in 1..Len(req) : req[n][1] = minutes
    /\ \A n \in 1..Len(req) :
          req[n][1] = minutes => req[n][2] = none /\ req[n][4] = confirmed

\* C18, as stated: for the scenario the response counts, 30 minutes ago, 3
\* debates confirmed and 7 not entered, and 10 minutes ago 3 confirmed and 7
\* not entered.
C18_HistogramAsStated ==
    (db = HistogramScenario /\ req # <<>>)
        => CheckpointCounts(30, 7, 3) /\ CheckpointCounts(10, 7, 3)

\* C18, amended: for the scenario the response counts, 30 minutes ago, 1
\* debate confirmed and 9 not entered (only the oldest submission is that
\* old), and 10 minutes ago 3 confirmed and 7 not entered.
C18_Histogram ==
    (db = HistogramScenario /\ req # <<>>)
        => CheckpointCounts(30, 9, 1) /\ CheckpointCounts(10, 7, 3)

\* ballots_status has answered for the scenario, with its 21 checkpoints
C18_Witness ==
    /\ db = HistogramScenario
    /\ Len(req) = intervals + 1
    /\ req[1][1] = 30 /\ req[intervals + 1][1] = 10

\* C19: in every state the result_status of a debate agrees with its
\* submissions: it is CONFIRMED exactly if one live submission is confirmed,
\* POSTPONED only if none is confirmed, and NO_RESULT only if the debate has
\* no live submission.
C19_StatusAgrees ==
    \A debate \in Debates :
        /\ db.result_status[debate] = STATUS_CONFIRMED
              <=> Cardinality(Confirmed(db, debate)) = 1
        /\ db.result_status[debate] = STATUS_POSTPONED
              => Confirmed(db, debate) = {}
        /\ db.result_status[debate] = STATUS_NONE
              => Live(db, debate) = {}

\* C20: at every checkpoint of the response of ballots_status each debate
\* of the round is counted at most once: the three counts are not negative,
\* they add up to the number of debates of the round, and no more debates
\* are counted as draft or confirmed than have submissions.
C20_EachDebateOnce ==
    \A n \in 1..Len(req) :
        /\ req[n][2] >= 0 /\ req[n][3] >= 0 /\ req[n][4] >= 0
        /\ req[n][2] + req[n][3] + req[n][4] = db.debates
        /\ req[n][3] + req[n][4] <= Cardinality(BallotDebates(db.ballots))

\* the checkin requests that have passed the test of ballot_in for the
\* debate and have not finished
CheckinsPassed(debate) ==
    LET passed == {q \in At("c_save") \cup At("c_log") : q.debate = debate}
        RECURSIVE Sum(_)
        Sum(S) == IF S = {} THEN 0
                  ELSE LET q == CHOOSE x \in S : TRUE
                       IN CopiesIn(q, req) + Sum(S \ {q})
    IN Sum(passed)

\* C21: when checkin requests of one round and venue interleave at their
\* database accesses, the debate never has more than one checkin entry in
\* the action log.
C21_OneCheckin ==
    \A debate \in Debates :
        LogCount(db, ACTION_TYPE_BALLOT_CHECKIN, debate) <= 1

\* two checkin requests for one debate are past the test of ballot_in at
\* once: neither was answered AlreadyCheckedInError
C21_BothPassed ==
    \E debate \in Debates : CheckinsPassed(debate) = 2

\* C22: with all_results_released off, public_ballots_view serves no ballot
\* of a debate whose round is the current round or a later one or is silent,
\* and it serves a ballot only where PublicResultsForRoundView.get serves the
\* results of the round.
C22_BallotNotServedEarly ==
    \A debate \in Debates, round \in PublicRoundStates :
        LET out == public_ballots_view(db, debate, round, FALSE)
        IN /\ (round.seq >= round.current_seq \/ round.silent)
                => out.result # "served"
           /\ out.result = "served"
                => PublicResultsForRoundView_get(round, FALSE) = "served"

\* a debate has a confirmed ballot that the public can ask for
C22_ConfirmedBallot ==
    \E debate \in Debates :
        /\ db.result_status[debate] = STATUS_CONFIRMED
        /\ Confirmed(db, debate) # {}

====
